---- MODULE Spec2Model ----
(***************************************************************************)
(* Model of recommend.py: parse_animelist, get_recommendations_from_jikan  *)
(* and main.  Text values (the .text of an XML element, the result of      *)
(* str()) are sequences of one-character strings; an absent or empty text  *)
(* is the empty sequence.  A JSON object is a record whose DOMAIN holds    *)
(* the keys that are present.                                              *)
(***************************************************************************)
EXTENDS Integers, Sequences, FiniteSets, TLC

VARIABLES
    export,           \* the records of animelist.xml, in document order
    responses,        \* the answers the remote service can give, by identifier
    pc,               \* position of main
    anime_list,       \* main: rated entries, as returned by parse_animelist
    all_anime_ids,    \* main: identifiers of all records
    top_anime,        \* main: entries with score >= 8
    num_to_check,     \* main: min(25, len(top_anime))
    idx,              \* main: number of source titles completed
    attempt,          \* fetcher: loop variable of range(max_retries)
    events,           \* fetcher: urlopen calls, sleeps and diagnostics of the current call
    recs,             \* main: result of the last fetcher call
    j,                \* main: number of entries of recs[:8] processed
    recommendations,  \* main: the Counter, in insertion order
    report,           \* main: the (title, count) lines printed at the end
    slept,            \* total time passed to time.sleep
    fetched,          \* the entries the fetcher was called for, in call order
    decoded,          \* number of fetcher calls whose response body decoded as JSON
    tallyAtCall       \* the Counter as it was when the fetcher was last called

vars == <<export, responses, pc, anime_list, all_anime_ids, top_anime,
          num_to_check, idx, attempt, events, recs, j, recommendations,
          report, slept, fetched, decoded, tallyAtCall>>

-----------------------------------------------------------------------------
(* Bounds of the model *)

\* longest export the parser is checked on
MaxRecords == 3
\* number of score >= 8 records of the large export
BigTop == 26

-----------------------------------------------------------------------------
(* Text: int() and str() *)

Digits == <<"0", "1", "2", "3", "4", "5", "6", "7", "8", "9">>

IsDigit(c) == \E d \in DOMAIN Digits : Digits[d] = c

DigitVal(c) == (CHOOSE d \in DOMAIN Digits : Digits[d] = c) - 1

RECURSIVE NatVal(_)
NatVal(t) ==
    IF t = <<>> THEN 0
    ELSE 10 * NatVal(SubSeq(t, 1, Len(t) - 1)) + DigitVal(t[Len(t)])

AllDigits(t) == Len(t) > 0 /\ \A i \in DOMAIN t : IsDigit(t[i])

\* int(text) raises ValueError unless text is an optionally signed decimal
IntParses(t) ==
    \/ AllDigits(t)
    \/ Len(t) > 1 /\ t[1] = "-" /\ AllDigits(Tail(t))

IntOf(t) == IF t[1] = "-" THEN 0 - NatVal(Tail(t)) ELSE NatVal(t)

RECURSIVE Str(_)
Str(n) == IF n < 10 THEN <<Digits[n + 1]>>
          ELSE Str(n \div 10) \o <<Digits[(n % 10) + 1]>>

-----------------------------------------------------------------------------
(* parse_animelist *)

RequiredFields == {"id", "title", "score", "status"}

\* anime.find(tag).text raises AttributeError when the element is missing
RecordReadable(r) == RequiredFields \subseteq DOMAIN r

\* variant of line 26 with >= in place of >
ScoreAtLeastZero(score) == Len(score) > 0 /\ IntOf(score) >= 0

\* line 26: if score and int(score) > 0
IsRated(score) == Len(score) > 0 /\ IntOf(score) > 0

\* line 26 raises when a non-empty score is not an integer
RecordParses(r) ==
    RecordReadable(r) /\ (Len(r.score) > 0 => IntParses(r.score))

ExportParses(ex) == \A i \in DOMAIN ex : RecordParses(ex[i])

Entry(r) == [id |-> r.id, title |-> r.title, score |-> IntOf(r.score),
             status |-> r.status]

\* lines 13, 26-32: the rated records, in document order
RatedOf(ex) ==
    LET kept == SelectSeq(ex, LAMBDA r : IsRated(r.score))
    IN [i \in DOMAIN kept |-> Entry(kept[i])]

\* variant of line 23 with the add moved inside the if of line 26
RatedIdsOnly(ex) == {ex[i].id : i \in {k \in DOMAIN ex : IsRated(ex[k].score)}}

\* lines 14, 23: every record's identifier
AllIds(ex) == {ex[i].id : i \in DOMAIN ex}

\* Place of the i-th element in sorted(..., reverse=True), keys[k] being the
\* key of the k-th element: after every element of a larger key and after
\* the earlier elements of the same key (sorted() is stable, also with
\* reverse=True)
Place(keys, i) ==
    Cardinality({k \in DOMAIN keys : keys[k] > keys[i]})
    + Cardinality({k \in 1..i : keys[k] = keys[i]})

SortedDescending(s, keys) ==
    [p \in DOMAIN s |-> s[CHOOSE i \in DOMAIN s : Place(keys, i) = p]]

\* line 34: sorted(rated_anime, key=lambda x: x['score'], reverse=True)
SortedByScore(s) == SortedDescending(s, [i \in DOMAIN s |-> s[i].score])

-----------------------------------------------------------------------------
(* The remote service: what one urlopen call can be answered with *)

Http(code) == [kind |-> "http", code |-> code]
Transport == [kind |-> "exc"]
Ok(body) == [kind |-> "ok", body |-> body]

NotJson == [json |-> "malformed"]
JsonArray == [json |-> "array"]
JsonObject(obj) == [json |-> "object", obj |-> obj]

Title(name) == <<name>>
Rec(id, name) == [entry |-> [mal_id |-> id, title |-> Title(name)]]
Listing(items) == Ok(JsonObject([data |-> items]))

\* recommendations mal_id 1, 5, 2, then 6 under the title of 5
ShortListing == Listing(<<Rec(1, "A"), Rec(5, "B"), Rec(2, "C"), Rec(6, "B")>>)
OtherListing == Listing(<<Rec(5, "B"), Rec(1, "A"), Rec(7, "D")>>)
\* an entry with no mal_id, after one that can be tallied
NoIdListing == Listing(<<Rec(5, "B"), [entry |-> [title |-> Title("E")]]>>)
\* entries with no title: mal_id 1, then mal_id 8
NoTitleListing == Listing(<<[entry |-> [mal_id |-> 1]], [entry |-> [mal_id |-> 8]]>>)
NoEntryListing == Listing(<<Rec(5, "B"), [node |-> "x"]>>)

AllOutcomes ==
    { Http(429), Http(404), Http(500), Transport,
      Ok(NotJson), Ok(JsonArray), Ok(JsonObject([pagination |-> "x"])),
      Listing(<<>>), ShortListing, OtherListing, NoIdListing, NoTitleListing,
      NoEntryListing }

\* a listing of 9 recommendations mal_id first .. first + 8, titled by their id
LongListing(first) ==
    Listing([k \in 1..9 |->
                [entry |-> [mal_id |-> first + k - 1, title |-> Str(first + k - 1)]]])

\* what the service lists for the title with identifier id: 9 recommendations
\* of its own, or for every fourth title the 9 recommendations from 1000 on
RelatedTo(id) ==
    IF NatVal(id) % 4 = 0 THEN LongListing(1000) ELSE LongListing(8 * NatVal(id))

-----------------------------------------------------------------------------
(* The exports main is run on *)

Anime(id, score) ==
    [id |-> id, title |-> <<"t">> \o id, score |-> score, status |-> <<"c">>]

SmallExport ==
    << Anime(<<"1">>, <<"9">>), Anime(<<"2">>, <<>>), Anime(<<"3">>, <<"7">>),
       Anime(<<"4">>, <<"0", "8">>) >>

\* identifier 01 is not the text of mal_id 1
PaddedExport ==
    << Anime(<<"0", "1">>, <<"8">>), Anime(<<"2">>, <<"1", "0">>),
       Anime(<<"9">>, <<"0">>) >>

UnratedExport == << Anime(<<"5">>, <<"7">>), Anime(<<"1">>, <<"0">>) >>

BadScoreExport == << Anime(<<"1">>, <<"9">>), Anime(<<"2">>, <<"x">>) >>

NoScoreExport == << Anime(<<"1">>, <<"9">>), [id |-> <<"2">>, title |-> <<"t">>,
                                              status |-> <<"c">>] >>

\* BigTop records of score 8, 9 or 10, then one of score 7 and one unrated;
\* identifiers 101, 102, ..., but record 3 has identifier 1003, which the
\* service recommends for every fourth title
BigExport ==
    [i \in 1..(BigTop + 2) |->
        IF i = BigTop + 1 THEN Anime(Str(100 + i), <<"7">>)
        ELSE IF i = BigTop + 2 THEN Anime(Str(100 + i), <<>>)
        ELSE IF i = 3 THEN Anime(Str(1003), <<"8">>)
        ELSE Anime(Str(100 + i), Str(8 + (i % 3)))]

\* the title of the large export for which the service can also fail
Unreliable == { Str(102) }

\* responses[id]: the answers the service can give for identifier id
Scenarios ==
    { [export |-> e,
       responses |-> [id \in {e[i].id : i \in DOMAIN e} |-> AllOutcomes]] :
        e \in {<<>>, SmallExport, PaddedExport, UnratedExport, BadScoreExport,
               NoScoreExport} }
    \cup { [export |-> BigExport,
            responses |-> [id \in {BigExport[i].id : i \in DOMAIN BigExport}
                             |-> IF id \in Unreliable
                                 THEN {RelatedTo(id), Http(429), Http(404)}
                                 ELSE {RelatedTo(id)}]] }

-----------------------------------------------------------------------------
(* get_recommendations_from_jikan *)

max_retries == 3

RateLimitDelay == 1

\* variant of line 48 that doubles the wait: 2, 4, 8
RECURSIVE DoublingWait(_)
DoublingWait(n) == IF n = 0 THEN 2 ELSE 2 * DoublingWait(n - 1)

\* line 48: wait_time = (attempt + 1) * 2
WaitTime(n) == (n + 1) * 2

\* variant of line 47 that also retries on HTTP 500
AnyServerBusy(code) == code \in {429, 500}

\* line 47: e.code == 429
IsRateLimited(code) == code = 429

\* the log of one fetcher call: what urlopen was answered with (the status
\* code of an error response, the kind of body of a successful one), the
\* calls of time.sleep and the diagnostics printed
Urlopen(o) == [ev |-> "urlopen", kind |-> o.kind,
               n |-> IF o.kind = "http" THEN o.code ELSE 0,
               json |-> IF o.kind = "ok" THEN o.body.json ELSE "none"]
Pause(kind, n) == [ev |-> "sleep", kind |-> kind, n |-> n, json |-> "none"]
Diag(kind) == [ev |-> "print", kind |-> kind, n |-> 0, json |-> "none"]

\* line 43: json.loads raises on a body that is not JSON
Decodes(body) == body.json # "malformed"

\* line 45: data.get('data', []), then rec['entry'] of every element
DataOf(body) == IF "data" \in DOMAIN body.obj THEN body.obj.data ELSE <<>>

Extracts(body) ==
    /\ body.json = "object"
    /\ \A i \in DOMAIN DataOf(body) : "entry" \in DOMAIN DataOf(body)[i]

EntriesOf(body) == [i \in DOMAIN DataOf(body) |-> DataOf(body)[i].entry]

\* variant of lines 43-45 that sleeps only before returning a non-empty list
PauseOnlyIfListed(o) ==
    IF ~Decodes(o.body)
    THEN [log |-> <<Diag("error")>>, slept |-> 0, recs |-> <<>>]
    ELSE IF ~Extracts(o.body)
    THEN [log |-> <<Diag("error")>>, slept |-> 0, recs |-> <<>>]
    ELSE IF EntriesOf(o.body) = <<>>
    THEN [log |-> <<>>, slept |-> 0, recs |-> <<>>]
    ELSE [log |-> <<Pause("rate", RateLimitDelay)>>, slept |-> RateLimitDelay,
          recs |-> EntriesOf(o.body)]

\* variant of lines 43-45 without line 44
NoPause(o) ==
    IF Decodes(o.body) /\ Extracts(o.body)
    THEN [log |-> <<>>, slept |-> 0, recs |-> EntriesOf(o.body)]
    ELSE [log |-> <<Diag("error")>>, slept |-> 0, recs |-> <<>>]

\* What happens from the response on, lines 43-45 and 54-56: without the
\* rate-limit sleep when the body does not decode; with it, and then with the
\* exception of line 45 caught, when the entries cannot be extracted.
AfterResponse(o) ==
    IF ~Decodes(o.body)
    THEN [log |-> <<Diag("error")>>, slept |-> 0, recs |-> <<>>]
    ELSE IF Extracts(o.body)
    THEN [log |-> <<Pause("rate", RateLimitDelay)>>, slept |-> RateLimitDelay,
          recs |-> EntriesOf(o.body)]
    ELSE [log |-> <<Pause("rate", RateLimitDelay), Diag("error")>>,
          slept |-> RateLimitDelay, recs |-> <<>>]

Return(result) ==
    /\ recs' = result
    /\ j' = 0
    /\ pc' = "tally"

\* lines 42-45, and 54-56 for what they raise
AttemptOk ==
    /\ pc = "attempt"
    /\ \E o \in responses[fetched[Len(fetched)].id] :
        /\ o.kind = "ok"
        /\ LET r == AfterResponse(o) IN
            /\ events' = events \o <<Urlopen(o)>> \o r.log
            /\ slept' = slept + r.slept
            /\ decoded' = IF Decodes(o.body) THEN decoded + 1 ELSE decoded
            /\ Return(r.recs)
    /\ UNCHANGED <<export, responses, anime_list, all_anime_ids, top_anime,
                   num_to_check, idx, attempt, recommendations, report,
                   fetched, tallyAtCall>>

\* lines 46-50, and 58-59 when the loop is exhausted
AttemptRateLimited ==
    /\ pc = "attempt"
    /\ \E o \in responses[fetched[Len(fetched)].id] :
        /\ o.kind = "http" /\ IsRateLimited(o.code)
        /\ LET log == events \o <<Urlopen(o), Diag("rate_limited"),
                                  Pause("backoff", WaitTime(attempt))>>
           IN
            /\ slept' = slept + WaitTime(attempt)
            /\ attempt' = attempt + 1
            /\ IF attempt + 1 < max_retries
               THEN /\ events' = log
                    /\ pc' = "attempt"
                    /\ UNCHANGED <<recs, j>>
               ELSE /\ events' = Append(log, Diag("failed"))
                    /\ Return(<<>>)
    /\ UNCHANGED <<export, responses, anime_list, all_anime_ids, top_anime,
                   num_to_check, idx, recommendations, report, fetched,
                   decoded, tallyAtCall>>

\* lines 46-47, 51-53
AttemptHttpError ==
    /\ pc = "attempt"
    /\ \E o \in responses[fetched[Len(fetched)].id] :
        /\ o.kind = "http" /\ ~IsRateLimited(o.code)
        /\ events' = events \o <<Urlopen(o), Diag("http_error")>>
    /\ Return(<<>>)
    /\ UNCHANGED <<export, responses, anime_list, all_anime_ids, top_anime,
                   num_to_check, idx, attempt, recommendations, report,
                   slept, fetched, decoded, tallyAtCall>>

\* lines 54-56: urlopen itself raises (timeout, URLError)
AttemptException ==
    /\ pc = "attempt"
    /\ \E o \in responses[fetched[Len(fetched)].id] :
        /\ o.kind = "exc"
        /\ events' = events \o <<Urlopen(o), Diag("error")>>
    /\ Return(<<>>)
    /\ UNCHANGED <<export, responses, anime_list, all_anime_ids, top_anime,
                   num_to_check, idx, attempt, recommendations, report,
                   slept, fetched, decoded, tallyAtCall>>

-----------------------------------------------------------------------------
(* main *)

TopScore == 8
MaxQueries == 25
PerTitle == 8
ReportSize == 20

Min(a, b) == IF a < b THEN a ELSE b

\* line 74: [a for a in anime_list if a['score'] >= 8]
TopRated(entries) == SelectSeq(entries, LAMBDA a : a.score >= TopScore)

\* line 81: min(25, len(top_anime))
NumToCheck(n) == Min(MaxQueries, n)

\* variant of line 90 without the slice
Uncapped(s) == s

\* line 90: recs[:8]
Considered(s) == SubSeq(s, 1, Min(PerTitle, Len(s)))

\* lines 91-92: str(rec['mal_id']) in all_anime_ids
IsKnown(id, ids) == Str(id) \in ids

\* line 93: recommendations[title] += 1
Increment(tally, title) ==
    IF \E i \in DOMAIN tally : tally[i].title = title
    THEN [i \in DOMAIN tally |->
            IF tally[i].title = title
            THEN [tally[i] EXCEPT !.count = @ + 1] ELSE tally[i]]
    ELSE Append(tally, [title |-> title, count |-> 1])

\* Counter.most_common sorts the items by count, largest first
SortedByCount(s) == SortedDescending(s, [i \in DOMAIN s |-> s[i].count])

\* variant of line 97 that takes the first n items of the Counter unsorted
FirstInserted(tally, n) == SubSeq(tally, 1, Min(n, Len(tally)))

\* line 97: recommendations.most_common(20)
MostCommon(tally, n) ==
    SubSeq(SortedByCount(tally), 1, Min(n, Len(tally)))

\* lines 65-84
Start ==
    /\ pc = "start"
    /\ IF ExportParses(export)
       THEN /\ anime_list' = SortedByScore(RatedOf(export))
            /\ all_anime_ids' = AllIds(export)
            /\ top_anime' = TopRated(anime_list')
            /\ num_to_check' = NumToCheck(Len(top_anime'))
            /\ pc' = "loop"
       ELSE /\ pc' = "parse_error"
            /\ UNCHANGED <<anime_list, all_anime_ids, top_anime, num_to_check>>
    /\ UNCHANGED <<export, responses, idx, attempt, events, recs, j,
                   recommendations, report, slept, fetched, decoded,
                   tallyAtCall>>

\* lines 86-88, 38-39
CallFetcher ==
    /\ pc = "loop"
    /\ idx < num_to_check
    /\ fetched' = Append(fetched, top_anime[idx + 1])
    /\ attempt' = 0
    /\ events' = <<>>
    /\ tallyAtCall' = recommendations
    /\ pc' = "attempt"
    /\ UNCHANGED <<export, responses, anime_list, all_anime_ids, top_anime,
                   num_to_check, idx, recs, j, recommendations, report,
                   slept, decoded>>

\* rec['mal_id'] or rec['title'] raises KeyError
Raises(rec) ==
    IF "mal_id" \notin DOMAIN rec THEN TRUE
    ELSE IF IsKnown(rec.mal_id, all_anime_ids) THEN FALSE
    ELSE "title" \notin DOMAIN rec

\* lines 90-93, one entry of recs[:8]
TallyRec ==
    /\ pc = "tally"
    /\ j < Len(Considered(recs))
    /\ LET rec == Considered(recs)[j + 1] IN
        /\ ~Raises(rec)
        /\ recommendations' =
              IF IsKnown(rec.mal_id, all_anime_ids) THEN recommendations
              ELSE Increment(recommendations, rec.title)
    /\ j' = j + 1
    /\ UNCHANGED <<export, responses, pc, anime_list, all_anime_ids,
                   top_anime, num_to_check, idx, attempt, events, recs,
                   report, slept, fetched, decoded, tallyAtCall>>

\* lines 91, 93: the KeyError is caught nowhere and ends the process
TallyRaises ==
    /\ pc = "tally"
    /\ j < Len(Considered(recs))
    /\ Raises(Considered(recs)[j + 1])
    /\ pc' = "crashed"
    /\ UNCHANGED <<export, responses, anime_list, all_anime_ids, top_anime,
                   num_to_check, idx, attempt, events, recs, j,
                   recommendations, report, slept, fetched, decoded,
                   tallyAtCall>>

\* line 86: the next source title
NextTitle ==
    /\ pc = "tally"
    /\ j = Len(Considered(recs))
    /\ idx' = idx + 1
    /\ pc' = "loop"
    /\ UNCHANGED <<export, responses, anime_list, all_anime_ids, top_anime,
                   num_to_check, attempt, events, recs, j, recommendations,
                   report, slept, fetched, decoded, tallyAtCall>>

\* lines 95-100
Report ==
    /\ pc = "loop"
    /\ idx = num_to_check
    /\ report' = MostCommon(recommendations, ReportSize)
    /\ pc' = "done"
    /\ UNCHANGED <<export, responses, anime_list, all_anime_ids, top_anime,
                   num_to_check, idx, attempt, events, recs, j,
                   recommendations, slept, fetched, decoded, tallyAtCall>>

Blank ==
    /\ pc = "start"
    /\ anime_list = <<>>
    /\ all_anime_ids = {}
    /\ top_anime = <<>>
    /\ num_to_check = 0
    /\ idx = 0
    /\ attempt = 0
    /\ events = <<>>
    /\ recs = <<>>
    /\ j = 0
    /\ recommendations = <<>>
    /\ report = <<>>
    /\ slept = 0
    /\ fetched = <<>>
    /\ decoded = 0
    /\ tallyAtCall = <<>>

Init ==
    /\ \E s \in Scenarios : export = s.export /\ responses = s.responses
    /\ Blank

Next ==
    \/ Start
    \/ CallFetcher
    \/ AttemptOk
    \/ AttemptRateLimited
    \/ AttemptHttpError
    \/ AttemptException
    \/ TallyRec
    \/ TallyRaises
    \/ NextTitle
    \/ Report

Spec == Init /\ [][Next]_vars

-----------------------------------------------------------------------------
(* parse_animelist on every export of at most MaxRecords records *)

ParseIds == { <<"1">>, <<"2">> }
ParseScores == { <<>>, <<"0">>, <<"7">>, <<"9">>, <<"0", "9">>, <<"-", "3">>,
                 <<"x">> }

ParseRecords ==
    { Anime(id, score) : id \in ParseIds, score \in ParseScores }
    \cup { [id |-> <<"1">>, title |-> <<"t">>, status |-> <<"c">>] }

RECURSIVE SeqsUpTo(_, _)
SeqsUpTo(S, n) ==
    IF n = 0 THEN {<<>>}
    ELSE LET shorter == SeqsUpTo(S, n - 1)
         IN shorter \cup {Append(q, x) : q \in shorter, x \in S}

InitParse ==
    /\ export \in SeqsUpTo(ParseRecords, MaxRecords)
    /\ responses = <<>>
    /\ Blank

NextParse == Start

SpecParse == InitParse /\ [][NextParse]_vars

-----------------------------------------------------------------------------
(* What the claims speak of *)

\* the last fetcher call has returned to main
CallReturned == fetched # <<>> /\ pc # "attempt"

Requests == SelectSeq(events, LAMBDA e : e.ev = "urlopen")

Sleeps == SelectSeq(events, LAMBDA e : e.ev = "sleep")

\* the requests and the sleeps of the call, in the order they happened
Timeline == SelectSeq(events, LAMBDA e : e.ev \in {"urlopen", "sleep"})

AllRequestsRateLimited ==
    /\ Requests # <<>>
    /\ \A i \in DOMAIN Requests :
          Requests[i].kind = "http" /\ Requests[i].n = 429

\* events[i] is where an attempt fails with something other than HTTP 429
FailsAt(i) ==
    \/ events[i].ev = "urlopen" /\ events[i].kind = "exc"
    \/ events[i].ev = "urlopen" /\ events[i].kind = "http" /\ events[i].n # 429
    \/ events[i].ev = "print" /\ events[i].kind \in {"error", "http_error"}

\* the sum of the counts of a tally
RECURSIVE Total(_)
Total(tally) ==
    IF tally = <<>> THEN 0
    ELSE IF Len(tally) = 1 THEN tally[1].count
    ELSE LET half == Len(tally) \div 2
         IN Total(SubSeq(tally, 1, half))
            + Total(SubSeq(tally, half + 1, Len(tally)))

\* the identifiers of the records of the export
KnownIdentifierSet == {export[i].id : i \in {k \in DOMAIN export : "id" \in DOMAIN export[k]}}

\* the score field of record r is present and parses to an integer > 0
Qualifies(r) ==
    /\ "score" \in DOMAIN r
    /\ r.score # <<>>
    /\ IntParses(r.score)
    /\ IntOf(r.score) > 0

SameAnime(e, r) ==
    /\ e.id = r.id /\ e.title = r.title /\ e.status = r.status
    /\ e.score = IntOf(r.score)

\* the entries main is to query, from the export alone
QueriedScores ==
    LET n == Cardinality({i \in DOMAIN export :
                             Qualifies(export[i]) /\ IntOf(export[i].score) >= 8})
    IN IF n < 25 THEN n ELSE 25

-----------------------------------------------------------------------------
(* C1 *)

\* C1, as claimed: a call all of whose requests are answered with HTTP 429
\* makes exactly 3 requests, sleeps 2 and then 4 units and no more, each sleep
\* between two consecutive requests, and returns an empty list without raising.
C1_SleepsTwoThenFour ==
    (CallReturned /\ AllRequestsRateLimited) =>
        /\ Len(Requests) = 3
        /\ [i \in DOMAIN Sleeps |-> Sleeps[i].n] = <<2, 4>>
        /\ [i \in DOMAIN Timeline |-> Timeline[i].ev]
              = <<"urlopen", "sleep", "urlopen", "sleep", "urlopen">>
        /\ recs = <<>>

\* C1, amended: a call all of whose requests are answered with HTTP 429 makes
\* exactly 3 requests, sleeps 2, 4 and then 6 units, one sleep after each
\* request (the last one after the third request, with no request after it),
\* and returns an empty list to main, which goes on.
C1_SleepsTwoFourSix ==
    (CallReturned /\ AllRequestsRateLimited) =>
        /\ Len(Requests) = 3
        /\ [i \in DOMAIN Sleeps |-> Sleeps[i].n] = <<2, 4, 6>>
        /\ [i \in DOMAIN Timeline |-> Timeline[i].ev]
              = <<"urlopen", "sleep", "urlopen", "sleep", "urlopen", "sleep">>
        /\ recs = <<>>
        /\ pc # "crashed"

C1_Witness ==
    /\ pc = "tally"
    /\ AllRequestsRateLimited
    /\ Len(Requests) = 3

-----------------------------------------------------------------------------
(* C2 *)

\* C2: once an attempt of a call has failed with an HTTP error other than 429
\* or with any other exception, the call makes no further request and no
\* sleep, and it has returned the empty list.
C2_AbortsOnOtherFailure ==
    \A i \in DOMAIN events :
        FailsAt(i) =>
            /\ \A k \in DOMAIN events :
                  k > i => events[k].ev \notin {"urlopen", "sleep"}
            /\ pc # "attempt"
            /\ recs = <<>>

\* the third attempt of a call fails with an HTTP error other than 429
C2_Witness ==
    /\ pc = "tally"
    /\ Len(Requests) = 3
    /\ Requests[3].kind = "http" /\ Requests[3].n # 429
    /\ Len(Sleeps) = 2

-----------------------------------------------------------------------------
(* C3 *)

\* C3, as claimed: in a call that has returned, every successful response is
\* followed at once by the sleep of 1 unit.
C3_PausesAfterEveryResponse ==
    CallReturned =>
        \A i \in DOMAIN events :
            (events[i].ev = "urlopen" /\ events[i].kind = "ok") =>
                /\ i < Len(events)
                /\ events[i + 1].ev = "sleep" /\ events[i + 1].n = 1

\* C3, amended: in a call that has returned, every successful response whose
\* body decodes as JSON is followed at once by the sleep of 1 unit, whether
\* the list in it is empty or not and whether it came first or on a retry.
C3_PausesAfterDecodedResponse ==
    CallReturned =>
        \A i \in DOMAIN events :
            (events[i].ev = "urlopen" /\ events[i].kind = "ok"
                /\ events[i].json # "malformed") =>
                /\ i < Len(events)
                /\ events[i + 1].ev = "sleep" /\ events[i + 1].n = 1

\* a retry is answered with an empty list
C3_Witness ==
    /\ pc = "tally"
    /\ Len(Requests) = 2
    /\ Requests[2].kind = "ok" /\ Requests[2].json = "object"
    /\ recs = <<>>
    /\ events[Len(events)].ev = "sleep"

-----------------------------------------------------------------------------
(* C4 *)

\* C4: whatever the service answers, no exception ends the run of main.
C4_NeverAborts == pc # "crashed"

-----------------------------------------------------------------------------
(* C5 *)

\* C5: a step of the aggregation loop that handles a recommendation whose
\* identifier is the identifier of a record of the export, rated or not,
\* leaves the tally as it is.
C5_KnownNeverTallied ==
    [][ (/\ pc = "tally"
         /\ j' = j + 1
         /\ Str(recs[j + 1].mal_id) \in KnownIdentifierSet)
        => recommendations' = recommendations ]_vars

\* for the second source title, a recommendation of a known identifier has
\* been handled, with other recommendations tallied
C5_Witness ==
    /\ pc = "tally"
    /\ idx = 1
    /\ j >= 1
    /\ "mal_id" \in DOMAIN recs[j]
    /\ Str(recs[j].mal_id) \in KnownIdentifierSet
    /\ recommendations # <<>>

-----------------------------------------------------------------------------
(* C6 *)

\* C6: when the run of main has ended, the fetcher has been called exactly
\* min(25, n) times, for the first min(25, n) entries of score >= 8 of the
\* rated sequence, in their order.
C6_QueriesFirstTwentyFive ==
    pc \in {"done", "crashed"} =>
        /\ Len(fetched) = QueriedScores
        /\ \A i \in DOMAIN fetched : fetched[i] = anime_list[i]
        /\ \A i \in DOMAIN fetched : fetched[i].score >= 8

\* What remains of C6 in the runs that reach the report.
CompletedRunQueriesFirstTwentyFive ==
    pc = "done" =>
        /\ Len(fetched) = QueriedScores
        /\ \A i \in DOMAIN fetched : fetched[i] = anime_list[i]
        /\ \A i \in DOMAIN fetched : fetched[i].score >= 8
        /\ \A i \in DOMAIN anime_list :
              i > Len(fetched) /\ i <= 25 => anime_list[i].score < 8

-----------------------------------------------------------------------------
(* C7 *)

\* C7: while the result of one fetch is processed, at most 8 of its entries
\* are handled, and the sum of all counts has grown by at most 8 since the
\* fetcher was called.
C7_AtMostEightPerTitle ==
    pc \in {"tally", "loop", "done", "crashed"} =>
        /\ j <= 8
        /\ Total(recommendations) <= Total(tallyAtCall) + j

\* a result of 9 entries, all its first 8 tallied
C7_Witness ==
    /\ pc = "loop"
    /\ Len(recs) = 9
    /\ j = 8
    /\ Total(recommendations) = Total(tallyAtCall) + 8

-----------------------------------------------------------------------------
(* C8 *)

\* C8: the rated sequence holds exactly the records whose score is present
\* and parses to an integer > 0, each as often as the export holds it, in
\* non-increasing order of score.
C8_RatedSequence ==
    pc = "loop" =>
        /\ Len(anime_list)
              = Cardinality({i \in DOMAIN export : Qualifies(export[i])})
        /\ \A k \in DOMAIN anime_list :
              \E i \in DOMAIN export :
                  Qualifies(export[i]) /\ SameAnime(anime_list[k], export[i])
        /\ \A i \in DOMAIN export :
              Qualifies(export[i]) =>
                  Cardinality({k \in DOMAIN anime_list :
                                  SameAnime(anime_list[k], export[i])})
                  = Cardinality({m \in DOMAIN export :
                                    /\ Qualifies(export[m])
                                    /\ export[m].id = export[i].id
                                    /\ export[m].title = export[i].title
                                    /\ export[m].status = export[i].status
                                    /\ IntOf(export[m].score) = IntOf(export[i].score)})
        /\ \A k \in 1..(Len(anime_list) - 1) :
              anime_list[k].score >= anime_list[k + 1].score

\* an export with an unrated record, whose rated records are not in order
C8_Witness ==
    /\ pc = "loop"
    /\ Len(anime_list) >= 2
    /\ Len(anime_list) < Len(export)
    /\ \E i \in DOMAIN export :
          /\ Qualifies(export[1]) /\ Qualifies(export[i])
          /\ IntOf(export[1].score) < IntOf(export[i].score)

-----------------------------------------------------------------------------
(* C9 *)

TalliedTitles == {recommendations[i].title : i \in DOMAIN recommendations}

CountOf(title) ==
    recommendations[CHOOSE i \in DOMAIN recommendations :
                        recommendations[i].title = title].count

\* C9: the report lists min(20, number of tallied titles) different tallied
\* titles with their counts, in non-increasing order of count, and no title
\* left out has a larger count than a title listed.
C9_ReportOrder ==
    pc = "done" =>
        /\ Len(report) = IF Cardinality(TalliedTitles) < 20
                         THEN Cardinality(TalliedTitles) ELSE 20
        /\ \A i \in DOMAIN report :
              /\ report[i].title \in TalliedTitles
              /\ report[i].count = CountOf(report[i].title)
        /\ \A i, k \in DOMAIN report :
              i < k => /\ report[i].title # report[k].title
                       /\ report[i].count >= report[k].count
        /\ \A t \in TalliedTitles :
              (\A i \in DOMAIN report : report[i].title # t) =>
                  \A i \in DOMAIN report : CountOf(t) <= report[i].count

\* more than 20 titles tallied, of different counts and not in order of
\* count; titles of two different counts are listed and others are left out
C9_Witness ==
    /\ pc = "done"
    /\ Cardinality(TalliedTitles) > 20
    /\ Len(report) = 20
    /\ report[1].count > report[20].count
    /\ \E i \in DOMAIN recommendations :
          i > 1 /\ recommendations[i].count > recommendations[1].count

-----------------------------------------------------------------------------
(* C10 *)

\* C10, as claimed: between two fetches and at the report, the time slept is
\* at least 1 unit for every fetch made.
C10_SleptOncePerFetch ==
    pc \in {"loop", "done"} => slept >= Len(fetched)

\* C10, amended: the time slept is at least 1 unit for every fetch in which a
\* request received a successful response whose body decodes as JSON.
C10_SleptOncePerDecodedFetch ==
    /\ decoded <= Len(fetched)
    /\ slept >= decoded

\* a finished run in which one fetch decoded a response and one did not
C10_Witness ==
    /\ pc = "done"
    /\ Len(fetched) = 2
    /\ decoded = 1
    /\ slept = 1

====
